---- MODULE Spec2Model ----
(***************************************************************************)
(* Model of the APNS push client of src/apns/apns.cpp: the Apns object     *)
(* (TLS context, TLS session, socket), its constructor, destructor,        *)
(* PushMessage and FeedBack, and the hex / frame codec they use.           *)
(*                                                                         *)
(* Representation.  A byte is an integer 0..255; a C string is a sequence  *)
(* of character codes (ASCII).  A 32-bit value is a tuple of four bytes,   *)
(* most significant first; its image in memory depends on the host's byte  *)
(* order.  Two properties of the build are not fixed by the source and are *)
(* chosen in Init: the host byte order (littleEndian) and the signedness   *)
(* of plain char (charSigned).                                             *)
(***************************************************************************)
EXTENDS Integers, Sequences, FiniteSets, TLC

VARIABLES
    littleEndian,  \* build: host byte order
    charSigned,    \* build: plain char is signed
    pc,            \* position of the caller / of the constructor / of FeedBack
    ctx_,          \* Apns::ctx_   ("NULL" or a handle)
    ssl_,          \* Apns::ssl_   ("NULL" or a handle)
    sock_,         \* Apns::sock_  (-1 or a descriptor)
    res,           \* library/kernel side of the three resources
    connected,     \* the TLS handshake completed on ssl_ and it is not shut down
    relCount,      \* how often each resource has been released
    dtorLog,       \* library calls of the latest ~Apns, in order
    dtorEntry,     \* the fields as the latest ~Apns found them
    dtorCalls,     \* number of ~Apns runs
    sent,          \* bytes of the gateway's stream received so far (mod its period)
    inbuf,         \* decrypted bytes buffered in the session (SSL_pending)
    feedbacks,     \* the vector FeedBack fills
    fbSrc,         \* for each element of feedbacks, the buffer it was decoded from
    fbSilent,      \* reads of the running FeedBack that failed without a throw
    last,          \* outcome of the latest PushMessage / FeedBack call
    cin,           \* codec harness: input
    cout           \* codec harness: output

vars == <<littleEndian, charSigned, pc, ctx_, ssl_, sock_, res, connected,
          relCount, dtorLog, dtorEntry, dtorCalls, sent, inbuf, feedbacks,
          fbSrc, fbSilent, last, cin, cout>>

buildVars == <<littleEndian, charSigned>>
objVars   == <<ctx_, ssl_, sock_, res, connected>>
dtorVars  == <<relCount, dtorLog, dtorEntry, dtorCalls>>
fbVars    == <<sent, inbuf, feedbacks, fbSrc, fbSilent>>
codecVars == <<cin, cout>>

(***************************************************************************)
(* Bounds of the model.                                                    *)
(***************************************************************************)
MaxDtorCalls == 2     \* ~Apns runs considered
MaxPending   == 77    \* bytes buffered in the session at most
MaxSilent    == 1     \* silently failed reads per FeedBack call
MaxTokLen    == 2     \* token bytes of a feedback frame in the codec harness

(***************************************************************************)
(* Program constants.                                                      *)
(***************************************************************************)
TokenSize  == 32      \* char token[32]
FbBufSize  == 38      \* char buf[38] in FeedBack
ApsBufSize == 256     \* char buf[256] in ConstructAps
ChSize     == 2       \* char ch[2] in Hex2Str
SockFd     == 3       \* a descriptor returned by socket()

(***************************************************************************)
(* Sequences and bytes.                                                    *)
(***************************************************************************)
Rep(s, n) == [i \in 1..(n * Len(s)) |-> s[((i - 1) % Len(s)) + 1]]

Take(s, n) == IF n >= Len(s) THEN s ELSE SubSeq(s, 1, n)

Reverse(s) == [i \in 1..Len(s) |-> s[Len(s) + 1 - i]]

Zeros(n) == [i \in 1..n |-> 0]

\* memcpy(ptr, &v, 4) of a 32-bit value: its bytes as they lie in memory
StoreU32(v, le) == IF le THEN Reverse(v) ELSE v

\* memcpy(&v, ptr, 4)
LoadU32(m, le) == IF le THEN Reverse(m) ELSE m

\* htonl / ntohl: byte swap on a little-endian host, identity otherwise
htonl(v, le) == IF le THEN Reverse(v) ELSE v

ntohl(v, le) == htonl(v, le)

\* htons on a 16-bit value
htons(v, le) == IF le THEN (v % 256) * 256 + (v \div 256) ELSE v

StoreU16(v, le) == IF le THEN <<v % 256, v \div 256>> ELSE <<v \div 256, v % 256>>

LoadU16(m, le) == IF le THEN m[2] * 256 + m[1] ELSE m[1] * 256 + m[2]

\* uint16_t promoted to a 32-bit value
Widen16(v) == <<0, 0, v \div 256, v % 256>>

\* static_cast<uint16_t> of a 32-bit value
Narrow16(v) == v[3] * 256 + v[4]

\* 32-bit addition, wrapping
RECURSIVE AddFrom(_, _, _, _)
AddFrom(a, b, i, carry) ==
    IF i = 0 THEN <<>>
    ELSE LET s == a[i] + b[i] + carry
         IN  Append(AddFrom(a, b, i - 1, s \div 256), s % 256)

Add32(a, b) == AddFrom(a, b, 4, 0)

DaySeconds == <<0, 1, 81, 128>>     \* 86400

(***************************************************************************)
(* printf conversions.                                                     *)
(***************************************************************************)
HexDigit(n) == IF n < 10 THEN 48 + n ELSE 87 + n      \* '0'..'9', 'a'..'f'

Nibbles(v) == [i \in 1..(2 * Len(v)) |->
                  IF i % 2 = 1 THEN v[(i + 1) \div 2] \div 16
                               ELSE v[i \div 2] % 16]

RECURSIVE StripZeros(_)
StripZeros(ns) ==
    IF Len(ns) > 1 /\ ns[1] = 0 THEN StripZeros(Tail(ns)) ELSE ns

\* "%x" of a 32-bit unsigned value
FmtX(v) == LET ns == StripZeros(Nibbles(v))
           IN  [i \in 1..Len(ns) |-> HexDigit(ns[i])]

RECURSIVE FmtU(_)
FmtU(n) == IF n < 10 THEN <<48 + n>> ELSE Append(FmtU(n \div 10), 48 + (n % 10))

\* "%d"
FmtD(n) == IF n < 0 THEN <<45>> \o FmtU(0 - n) ELSE FmtU(n)

\* snprintf(buf, size, ...): at most size-1 characters are stored
Snprintf(size, text) == Take(text, size - 1)

\* a char passed through "..." : promoted to int, read by %x as unsigned
PromoteChar(b, signed) ==
    IF signed /\ b >= 128 THEN <<255, 255, 255, b>> ELSE <<0, 0, 0, b>>

(***************************************************************************)
(* Apns::Hex2Str.  oob is the value read for every byte past the end of    *)
(* the buffer (reading there is undefined).                                *)
(***************************************************************************)
Hex2StrByte(b, signed) == Snprintf(ChSize, FmtX(PromoteChar(b, signed)))

RECURSIVE Concat(_)
Concat(ss) == IF ss = <<>> THEN <<>> ELSE ss[1] \o Concat(Tail(ss))

Hex2Str(buf, len, signed, oob) ==
    Concat([i \in 1..len |->
              Hex2StrByte(IF i <= Len(buf) THEN buf[i] ELSE oob, signed)])

(***************************************************************************)
(* Apns::Str2Hex.                                                          *)
(*   str   the characters of the string, without the terminator            *)
(*   tail  what lies in memory behind the terminator (the loop reads it    *)
(*         when the length is odd); zero bytes follow it                   *)
(*   junk  what lies behind char tmp[2], which is not terminated, up to    *)
(*         the first zero byte (sscanf reads on into it)                   *)
(*   ch0   the value of the uninitialised unsigned ch                      *)
(* The strings considered contain no white space, sign or 'x'.             *)
(***************************************************************************)
HexVal(c) == IF c >= 48 /\ c <= 57 THEN c - 48
             ELSE IF c >= 97 /\ c <= 102 THEN c - 87
             ELSE IF c >= 65 /\ c <= 70 THEN c - 55
             ELSE -1

StrMem(str, tail, i) ==
    IF i <= Len(str) THEN str[i]
    ELSE IF i = Len(str) + 1 THEN 0
    ELSE IF i <= Len(str) + 1 + Len(tail) THEN tail[i - Len(str) - 1]
    ELSE 0

\* sscanf(s, "%x", &ch): the value of the longest prefix of hex digits,
\* kept to its low 8 bits on the way (only those are stored);
\* -1 when there is no digit (nothing is assigned)
RECURSIVE ScanDigits(_, _, _)
ScanDigits(s, i, acc) ==
    IF i > Len(s) \/ HexVal(s[i]) < 0 THEN acc
    ELSE ScanDigits(s, i + 1, (acc * 16 + HexVal(s[i])) % 256)

SscanfX(s) == IF s = <<>> \/ HexVal(s[1]) < 0 THEN -1 ELSE ScanDigits(s, 1, 0)

RECURSIVE Str2HexLoop(_, _, _, _, _, _, _)
Str2HexLoop(str, tail, junk, pos, szLen, ch, out) ==
    IF StrMem(str, tail, pos) = 0 \/ szLen = 0 THEN out
    ELSE LET tmp == <<StrMem(str, tail, pos), StrMem(str, tail, pos + 1)>>
             r   == SscanfX(tmp \o junk)
             nch == IF r < 0 THEN ch ELSE r
         IN  Str2HexLoop(str, tail, junk, pos + 2, szLen - 1, nch,
                         Append(out, nch))

Str2Hex(str, szLen, tail, junk, ch0) ==
    LET out == Str2HexLoop(str, tail, junk, 1, szLen, ch0, <<>>)
    IN  out \o Zeros(szLen - Len(out))

(***************************************************************************)
(* Apns::ConstructAps.                                                     *)
(***************************************************************************)
ApsPart1 == <<123, 34, 97, 112, 115, 34, 58, 32, 123, 34, 97, 108, 101,
              114, 116, 34, 58, 32, 34>>                 \* {"aps": {"alert": "
ApsPart2 == <<34, 44, 34, 98, 97, 100, 103, 101, 34, 58, 32>>   \* ","badge":
ApsPart3 == <<44, 34, 115, 111, 117, 110, 100, 34, 58, 32, 34>> \* ,"sound": "
ApsPart4 == <<34, 125, 125>>                                    \* "}}

ConstructAps(body, badge, sound) ==
    Snprintf(ApsBufSize,
             ApsPart1 \o body \o ApsPart2 \o FmtD(badge) \o ApsPart3
                      \o sound \o ApsPart4)

(***************************************************************************)
(* The buffer Apns::PushMessage hands to SSL_write.                        *)
(***************************************************************************)
NotificationFrame(token, aps, now, le) ==
    LET id         == now
        expiry     == htonl(Add32(id, DaySeconds), le)
        tokenlen   == htons(TokenSize, le)
        payloadlen == htons(Len(aps), le)
    IN  <<1>> \o StoreU32(id, le) \o StoreU32(expiry, le)
              \o StoreU16(tokenlen, le) \o token
              \o StoreU16(payloadlen, le) \o aps

(***************************************************************************)
(* The decoding part of Apns::FeedBack, applied to the 38-byte buffer.     *)
(***************************************************************************)
DecodeFeedback(buf, le, signed, oob) ==
    LET tm  == ntohl(LoadU32(SubSeq(buf, 1, 4), le), le)
        len == Narrow16(ntohl(Widen16(LoadU16(SubSeq(buf, 5, 6), le)), le))
    IN  [tm |-> tm, len |-> len,
         token |-> Hex2Str(SubSeq(buf, 7, Len(buf)), len, signed, oob)]

(***************************************************************************)
(* Library calls.  A call of the TLS library succeeds ("ok"), fails with   *)
(* an error code in the library's error queue ("queued") or fails with the *)
(* queue empty ("silent").  A call on a handle that is NULL or freed is    *)
(* undefined: the process dies ("crash") or the call fails.                *)
(***************************************************************************)
TlsOutcomes(handleOk) ==
    IF handleOk THEN {"ok", "queued", "silent"}
                ELSE {"crash", "queued", "silent"}

SysOutcomes == {"ok", "fail"}

\* ASSERT_SSL(cond): throws when cond holds and ERR_get_error() returns a code
ASSERT_SSL(cond, errQueued) == cond /\ errQueued

\* ASSERT_SYSTEM(cond): throws when cond holds
ASSERT_SYSTEM(cond) == cond

NoCall == [op |-> "none", done |-> FALSE, threw |-> FALSE, ret |-> 0,
           conn |-> FALSE, tls |-> FALSE, tlsRet |-> 1, wire |-> <<>>,
           raw |-> <<>>, now |-> <<>>, plain |-> TRUE]

NoRes == [ctx |-> "none", sock |-> "none", ssl |-> "none"]

NoRel == [ctx |-> 0, sock |-> 0, ssl |-> 0]

NoFields == [ctx |-> "NULL", sock |-> -1, ssl |-> "NULL"]

\* the state right after the member initialisers ctx_(NULL), ssl_(NULL), sock_(-1)
Init ==
    /\ littleEndian \in BOOLEAN
    /\ charSigned \in BOOLEAN
    /\ pc = "c_ctx"
    /\ ctx_ = "NULL"
    /\ ssl_ = "NULL"
    /\ sock_ = -1
    /\ res = NoRes
    /\ connected = FALSE
    /\ relCount = NoRel
    /\ dtorLog = <<>>
    /\ dtorEntry = NoFields
    /\ dtorCalls = 0
    /\ sent = 0
    /\ inbuf = <<>>
    /\ feedbacks = <<>>
    /\ fbSrc = <<>>
    /\ fbSilent = 0
    /\ last = NoCall
    /\ cin = <<>>
    /\ cout = <<>>

rest == <<buildVars, dtorVars, fbVars, last, codecVars>>

(***************************************************************************)
(* Apns::Apns and Apns::Conn, one action per checked call.  A throw leaves *)
(* the constructor: the object never exists and ~Apns does not run.        *)
(***************************************************************************)
\* TLSv1_method, SSL_CTX_new
CtorCtx ==
    /\ pc = "c_ctx"
    /\ \E om \in TlsOutcomes(TRUE) :
         IF ASSERT_SSL(om # "ok", om = "queued")
         THEN /\ pc' = "failed"
              /\ UNCHANGED <<ctx_, res>>
         ELSE \E oc \in TlsOutcomes(om = "ok") :
                /\ ctx_' = IF oc = "ok" THEN "ctx" ELSE "NULL"
                /\ res' = IF oc = "ok" THEN [res EXCEPT !.ctx = "live"] ELSE res
                /\ pc' = IF oc = "crash" THEN "crashed"
                         ELSE IF ASSERT_SSL(oc # "ok", oc = "queued")
                              THEN "failed" ELSE "c_cert"
    /\ UNCHANGED <<ssl_, sock_, connected, rest>>

\* a checked call on ctx_ that acquires nothing
CtxCall(from, to) ==
    /\ pc = from
    /\ \E o \in TlsOutcomes(ctx_ # "NULL") :
         pc' = IF o = "crash" THEN "crashed"
               ELSE IF ASSERT_SSL(o # "ok", o = "queued") THEN "failed" ELSE to
    /\ UNCHANGED <<objVars, rest>>

\* SSL_CTX_set_verify, SSL_CTX_set_default_passwd_cb*, SSL_CTX_use_certificate_file
CtorCert == CtxCall("c_cert", "c_key")

\* SSL_CTX_use_PrivateKey_file
CtorKey == CtxCall("c_key", "c_check")

\* SSL_CTX_check_private_key
CtorCheck == CtxCall("c_check", "n_resolve")

\* gethostbyname
ConnResolve ==
    /\ pc = "n_resolve"
    /\ \E o \in SysOutcomes :
         pc' = IF ASSERT_SYSTEM(o # "ok") THEN "failed" ELSE "n_socket"
    /\ UNCHANGED <<objVars, rest>>

\* socket
ConnSocket ==
    /\ pc = "n_socket"
    /\ \E o \in SysOutcomes :
         /\ sock_' = IF o = "ok" THEN SockFd ELSE -1
         /\ res' = IF o = "ok" THEN [res EXCEPT !.sock = "live"] ELSE res
         /\ pc' = IF ASSERT_SYSTEM(o # "ok") THEN "failed" ELSE "n_connect"
    /\ UNCHANGED <<ctx_, ssl_, connected, rest>>

\* connect
ConnConnect ==
    /\ pc = "n_connect"
    /\ \E o \in SysOutcomes :
         pc' = IF ASSERT_SYSTEM(o # "ok") THEN "failed" ELSE "n_sslnew"
    /\ UNCHANGED <<objVars, rest>>

\* SSL_new
ConnSslNew ==
    /\ pc = "n_sslnew"
    /\ \E o \in TlsOutcomes(ctx_ # "NULL") :
         /\ ssl_' = IF o = "ok" THEN "ssl" ELSE "NULL"
         /\ res' = IF o = "ok" THEN [res EXCEPT !.ssl = "live"] ELSE res
         /\ pc' = IF o = "crash" THEN "crashed"
                  ELSE IF ASSERT_SSL(o # "ok", o = "queued")
                       THEN "failed" ELSE "n_setfd"
    /\ UNCHANGED <<ctx_, sock_, connected, rest>>

\* SSL_set_fd
ConnSetFd ==
    /\ pc = "n_setfd"
    /\ \E o \in TlsOutcomes(ssl_ # "NULL") :
         pc' = IF o = "crash" THEN "crashed"
               ELSE IF ASSERT_SSL(o # "ok", o = "queued") THEN "failed"
               ELSE IF o = "ok" THEN "n_handshake" ELSE "n_handshake_nofd"
    /\ UNCHANGED <<objVars, rest>>

\* SSL_connect; the constructor returns after it.  Without a descriptor
\* set on the session the handshake cannot succeed.
ConnHandshake ==
    /\ pc \in {"n_handshake", "n_handshake_nofd"}
    /\ \E o \in TlsOutcomes(ssl_ # "NULL") \
                 (IF pc = "n_handshake_nofd" THEN {"ok"} ELSE {}) :
         /\ connected' = (o = "ok")
         /\ pc' = IF o = "crash" THEN "crashed"
                  ELSE IF ASSERT_SSL(o # "ok", o = "queued")
                       THEN "failed" ELSE "idle"
    /\ UNCHANGED <<ctx_, ssl_, sock_, res, rest>>

(***************************************************************************)
(* Apns::~Apns.  The body tests the three fields and does not change them. *)
(* It is the only teardown the class has; it is modelled as callable on a  *)
(* constructed object, up to MaxDtorCalls times.  Releasing a resource     *)
(* that is already released is undefined: the process dies or goes on.     *)
(***************************************************************************)
\* a teardown that frees the context before the session and the socket
DtorStepsCtxFirst(ssl, sock, ctx) ==
       (IF ctx # "NULL" THEN <<"SSL_CTX_free">> ELSE <<>>)
    \o (IF ssl # "NULL" THEN <<"SSL_shutdown", "SSL_free">> ELSE <<>>)
    \o (IF sock # -1 THEN <<"close">> ELSE <<>>)

DtorSteps(ssl, sock, ctx) ==
       (IF ssl # "NULL" THEN <<"SSL_shutdown", "SSL_free">> ELSE <<>>)
    \o (IF sock # -1 THEN <<"close">> ELSE <<>>)
    \o (IF ctx # "NULL" THEN <<"SSL_CTX_free">> ELSE <<>>)

Dtor ==
    /\ pc = "idle"
    /\ dtorCalls < MaxDtorCalls
    /\ LET rel == [ctx  |-> ctx_ # "NULL",
                   sock |-> sock_ # -1,
                   ssl  |-> ssl_ # "NULL"]
           again == \E r \in DOMAIN rel : rel[r] /\ res[r] = "freed"
       IN  /\ dtorLog' = DtorSteps(ssl_, sock_, ctx_)
           /\ dtorEntry' = [ctx |-> ctx_, sock |-> sock_, ssl |-> ssl_]
           /\ relCount' = [r \in DOMAIN rel |->
                              relCount[r] + (IF rel[r] THEN 1 ELSE 0)]
           /\ res' = [r \in DOMAIN rel |-> IF rel[r] THEN "freed" ELSE res[r]]
           /\ connected' = (connected /\ ~rel.ssl)
           /\ pc' \in (IF again THEN {"idle", "crashed"} ELSE {"idle"})
    /\ dtorCalls' = dtorCalls + 1
    /\ UNCHANGED <<ctx_, ssl_, sock_, buildVars, fbVars, last, codecVars>>

(***************************************************************************)
(* Inputs of PushMessage.                                                  *)
(***************************************************************************)
\* reference rendering: two lowercase hex digits per byte
HexRef(bytes) == [i \in 1..(2 * Len(bytes)) |-> HexDigit(Nibbles(bytes)[i])]

TokSeq    == HexRef([i \in 1..TokenSize |-> i])          \* "0102...20"
TokAB     == Rep(<<97, 98>>, TokenSize)                  \* "abab...ab"
TokOdd    == Take(TokSeq, 2 * TokenSize - 1)             \* 63 characters
TokNonHex == <<103, 49>> \o SubSeq(TokSeq, 3, 2 * TokenSize)   \* "g1..."
TokShort  == <<97, 98, 99, 100>>                         \* "abcd"
TokLong   == TokSeq \o <<102, 102>>                      \* 66 characters

Tokens == {TokSeq, TokAB, TokOdd, TokNonHex, TokShort, TokLong}

BodyHello == <<104, 101, 108, 108, 111>>                    \* "hello"
BodyLong  == Rep(<<120>>, 250)                              \* 250 times "x"

Bodies == {BodyHello, BodyLong}

Badges == {5}

Sounds == {<<100, 101, 102, 97, 117, 108, 116>>}             \* "default"

Times == {<<0, 0, 0, 10>>, <<1, 2, 3, 4>>, <<255, 255, 255, 255>>}

Tails == {<<>>, <<102, 102>>}

Junks == {<<>>, <<49>>}

Ch0s == {0, 171}

OobBytes == {0, 255}

FailRets == {0, -1}

SessionUsable == ssl_ # "NULL" /\ res.ssl = "live"

\* SSL_write / SSL_read on the session as it is
IoOutcomes ==
    IF connected THEN {"ok", "queued", "silent"}
    ELSE IF SessionUsable THEN {"queued", "silent"}
    ELSE {"crash", "queued", "silent"}

(***************************************************************************)
(* Apns::PushMessage.                                                      *)
(***************************************************************************)
\* the contents char token[32] can have after Str2Hex(deviceToken.c_str(), ...);
\* plain: the reads past the string and past tmp met a zero byte at once
TokenBuffers(tok) ==
    {[bytes |-> Str2Hex(tok, TokenSize, tail, junk, ch0),
      plain |-> (tail = <<>> /\ junk = <<>>)] :
        tail \in Tails, junk \in Junks, ch0 \in Ch0s}

\* lines 146-180: the buffers PushMessage can have built when it calls
\* SSL_write, for each input and byte order (tabulated once)
PushInputs == Tokens \X Bodies \X Badges \X Sounds \X Times

Encoded == [in \in PushInputs, le \in BOOLEAN |->
              {[buf |-> NotificationFrame(t.bytes,
                                          ConstructAps(in[2], in[3], in[4]),
                                          in[5], le),
                plain |-> t.plain] : t \in TokenBuffers(in[1])}]

PushMessageWith(Toks, Bods, Tms) ==
    /\ pc = "idle"
    /\ \E tok \in Toks, body \in Bods, badge \in Badges, sound \in Sounds,
          now \in Tms :
       \E e \in Encoded[<<tok, body, badge, sound, now>>, littleEndian],
          o \in IoOutcomes, r \in FailRets :
         LET buf == e.buf
             ret == IF o = "ok" THEN Len(buf) ELSE r
         IN  /\ o = "ok" => r = 0
             /\ pc' = IF o = "crash" THEN "crashed" ELSE "ret"
             /\ last' = [op |-> "PushMessage", done |-> o # "crash",
                         threw |-> ASSERT_SSL(ret <= 0, o = "queued"),
                         ret |-> ret, conn |-> connected, tls |-> TRUE,
                         tlsRet |-> ret, wire |-> buf, raw |-> tok,
                         now |-> now, plain |-> e.plain]
    /\ UNCHANGED <<objVars, buildVars, dtorVars, fbVars, codecVars>>

PushMessage == PushMessageWith({TokSeq, TokOdd}, {BodyHello}, {<<1, 2, 3, 4>>})

\* the caller takes the result of the call (return value, exception, vector)
Resume ==
    /\ pc = "ret"
    /\ pc' = "idle"
    /\ last' = NoCall
    /\ feedbacks' = <<>>
    /\ fbSrc' = <<>>
    /\ fbSilent' = 0
    /\ UNCHANGED <<objVars, buildVars, dtorVars, sent, inbuf, codecVars>>

(***************************************************************************)
(* The gateway: the feedback stream is a repetition of 38-byte frames      *)
(* (4-byte time, 2-byte length 32, 32 token bytes); any number of its      *)
(* bytes may have been received and decrypted when FeedBack looks.         *)
(***************************************************************************)
FrameA == <<0, 0, 0, 10>> \o <<0, 32>> \o Rep(<<171, 205>>, 16)

FrameB == <<1, 2, 3, 4>> \o <<0, 32>> \o [i \in 1..32 |-> i]

GatewayStream == FrameA \o FrameB

ArriveSizes == {1, 38}

Arrive ==
    /\ pc = "idle"
    /\ connected
    /\ \E n \in ArriveSizes :
         /\ Len(inbuf) + n <= MaxPending
         /\ inbuf' = inbuf \o [i \in 1..n |->
                         GatewayStream[((sent + i - 1) % Len(GatewayStream)) + 1]]
         /\ sent' = (sent + n) % Len(GatewayStream)
    /\ UNCHANGED <<pc, objVars, buildVars, dtorVars, feedbacks, fbSrc,
                   fbSilent, last, codecVars>>

(***************************************************************************)
(* Apns::FeedBack: the call, and one action per way round the loop.  The   *)
(* caller passes an empty vector.                                          *)
(***************************************************************************)
\* SSL_pending(ssl_)
Pending == IF connected THEN Len(inbuf) ELSE 0

FeedBackCall ==
    /\ pc = "idle"
    /\ pc' = "fb"
    /\ feedbacks' = <<>>
    /\ fbSrc' = <<>>
    /\ fbSilent' = 0
    /\ last' = [NoCall EXCEPT !.op = "FeedBack", !.conn = connected]
    /\ UNCHANGED <<objVars, buildVars, dtorVars, sent, inbuf, codecVars>>

\* if (sizeof(buf) >= num) break;
FeedBackBreak ==
    /\ pc = "fb"
    /\ FbBufSize >= Pending
    /\ \E crash \in (IF SessionUsable THEN {FALSE} ELSE {FALSE, TRUE}) :
         /\ pc' = IF crash THEN "crashed" ELSE "ret"
         /\ last' = [last EXCEPT !.done = ~crash]
    /\ UNCHANGED <<objVars, buildVars, dtorVars, fbVars, codecVars>>

\* SSL_read of sizeof(buf) bytes, decoding, push_back
FeedBackRead ==
    /\ pc = "fb"
    /\ ~(FbBufSize >= Pending)
    /\ \E o \in IoOutcomes, r \in FailRets, oob \in OobBytes :
         LET ret == IF o = "ok" THEN FbBufSize ELSE r
             buf == IF o = "ok" THEN SubSeq(inbuf, 1, FbBufSize)
                                ELSE Zeros(FbBufSize)
         IN  /\ o = "ok" => r = 0
             /\ o = "silent" => fbSilent < MaxSilent
             /\ IF ASSERT_SSL(ret <= 0, o = "queued")
                THEN /\ pc' = "ret"
                     /\ last' = [last EXCEPT !.done = TRUE, !.threw = TRUE,
                                             !.tls = TRUE, !.tlsRet = ret]
                     /\ UNCHANGED fbVars
                ELSE /\ pc' = IF o = "crash" THEN "crashed" ELSE "fb"
                     /\ last' = [last EXCEPT !.tls = TRUE, !.tlsRet = ret]
                     /\ inbuf' = IF o = "ok"
                                 THEN SubSeq(inbuf, FbBufSize + 1, Len(inbuf))
                                 ELSE inbuf
                     /\ feedbacks' = Append(feedbacks,
                           DecodeFeedback(buf, littleEndian, charSigned, oob))
                     /\ fbSrc' = Append(fbSrc, [buf |-> buf, ret |-> ret])
                     /\ fbSilent' = fbSilent + (IF o = "silent" THEN 1 ELSE 0)
                     /\ sent' = sent
    /\ UNCHANGED <<objVars, buildVars, dtorVars, codecVars>>

Next ==
    \/ CtorCtx \/ CtorCert \/ CtorKey \/ CtorCheck
    \/ ConnResolve \/ ConnSocket \/ ConnConnect
    \/ ConnSslNew \/ ConnSetFd \/ ConnHandshake
    \/ PushMessage \/ Resume \/ Arrive
    \/ FeedBackCall \/ FeedBackBreak \/ FeedBackRead
    \/ Dtor

Spec == Init /\ [][Next]_vars

(***************************************************************************)
(* PushMessage on a connected channel, over all the inputs.                *)
(***************************************************************************)
InitPush ==
    /\ littleEndian \in BOOLEAN
    /\ charSigned \in BOOLEAN
    /\ pc = "idle"
    /\ ctx_ = "ctx"
    /\ ssl_ = "ssl"
    /\ sock_ = SockFd
    /\ res = [ctx |-> "live", sock |-> "live", ssl |-> "live"]
    /\ connected = TRUE
    /\ relCount = NoRel
    /\ dtorLog = <<>>
    /\ dtorEntry = NoFields
    /\ dtorCalls = 0
    /\ sent = 0
    /\ inbuf = <<>>
    /\ feedbacks = <<>>
    /\ fbSrc = <<>>
    /\ fbSilent = 0
    /\ last = NoCall
    /\ cin = <<>>
    /\ cout = <<>>

PushMessageAll == PushMessageWith(Tokens, Bodies, Times)

NextPush == PushMessageAll \/ Resume

SpecPush == InitPush /\ [][NextPush]_vars

(***************************************************************************)
(* The codec alone: the decoding of FeedBack applied to one frame, and     *)
(* Hex2Str followed by Str2Hex applied to one 32-byte token.               *)
(***************************************************************************)
ByteSamples == {0, 5, 16, 171, 205}

RECURSIVE SeqsOf(_, _)
SeqsOf(S, n) ==
    IF n = 0 THEN {<<>>}
    ELSE {Append(q, x) : q \in SeqsOf(S, n - 1), x \in S}

\* a feedback frame as the gateway lays it out: time, token length, token
FeedbackFrame(tm, tok) == tm \o <<Len(tok) \div 256, Len(tok) % 256>> \o tok

CodecInputs ==
         {[kind |-> "frame", tm |-> tm, tok |-> tok] :
             tm \in Times,
             tok \in UNION {SeqsOf(ByteSamples, n) : n \in 0..MaxTokLen}}
    \cup {[kind |-> "bytes", tm |-> <<>>, tok |-> Rep(<<a, b>>, TokenSize \div 2)] :
             a \in ByteSamples, b \in ByteSamples}

InitCodec ==
    /\ littleEndian \in BOOLEAN
    /\ charSigned \in BOOLEAN
    /\ pc = "codec"
    /\ ctx_ = "NULL"
    /\ ssl_ = "NULL"
    /\ sock_ = -1
    /\ res = NoRes
    /\ connected = FALSE
    /\ relCount = NoRel
    /\ dtorLog = <<>>
    /\ dtorEntry = NoFields
    /\ dtorCalls = 0
    /\ sent = 0
    /\ inbuf = <<>>
    /\ feedbacks = <<>>
    /\ fbSrc = <<>>
    /\ fbSilent = 0
    /\ last = NoCall
    /\ cin \in CodecInputs
    /\ cout = <<>>

\* FeedBack, lines 198-216, on a buffer holding the frame and then zeros
CodecDecode ==
    /\ pc = "codec"
    /\ cin.kind = "frame"
    /\ \E oob \in OobBytes :
         cout' = DecodeFeedback(
                    Take(FeedbackFrame(cin.tm, cin.tok) \o Zeros(FbBufSize),
                         FbBufSize),
                    littleEndian, charSigned, oob)
    /\ pc' = "codec_done"
    /\ UNCHANGED <<objVars, buildVars, dtorVars, fbVars, last, cin>>

\* Str2Hex(Hex2Str(bytes, 32).c_str(), out, 32)
CodecRoundTrip ==
    /\ pc = "codec"
    /\ cin.kind = "bytes"
    /\ \E tail \in Tails, junk \in Junks, ch0 \in Ch0s :
         LET hex == Hex2Str(cin.tok, Len(cin.tok), charSigned, 0)
         IN  cout' = [hex |-> hex,
                      bytes |-> Str2Hex(hex, TokenSize, tail, junk, ch0)]
    /\ pc' = "codec_done"
    /\ UNCHANGED <<objVars, buildVars, dtorVars, fbVars, last, cin>>

NextCodec == CodecDecode \/ CodecRoundTrip

SpecCodec == InitCodec /\ [][NextCodec]_vars

(***************************************************************************)
(* Properties.                                                             *)
(***************************************************************************)
Range(f) == {f[i] : i \in DOMAIN f}

Before(log, a, b) ==
    \A i, j \in DOMAIN log : (log[i] = a /\ log[j] = b) => i < j

Once(log, a) == Cardinality({i \in DOMAIN log : log[i] = a}) <= 1

\* C1: every run of the teardown shuts the TLS session down (and frees it)
\* before it closes the socket, and closes the socket before it frees the
\* TLS context; a step is made exactly when its resource was acquired
\* (session not NULL, socket not -1, context not NULL), each at most once.
C1_TeardownOrder ==
    dtorCalls > 0 =>
        /\ Before(dtorLog, "SSL_shutdown", "SSL_free")
        /\ Before(dtorLog, "SSL_shutdown", "close")
        /\ Before(dtorLog, "SSL_free", "close")
        /\ Before(dtorLog, "SSL_shutdown", "SSL_CTX_free")
        /\ Before(dtorLog, "SSL_free", "SSL_CTX_free")
        /\ Before(dtorLog, "close", "SSL_CTX_free")
        /\ ("SSL_shutdown" \in Range(dtorLog)) <=> (dtorEntry.ssl # "NULL")
        /\ ("SSL_free" \in Range(dtorLog)) <=> (dtorEntry.ssl # "NULL")
        /\ ("close" \in Range(dtorLog)) <=> (dtorEntry.sock # -1)
        /\ ("SSL_CTX_free" \in Range(dtorLog)) <=> (dtorEntry.ctx # "NULL")
        /\ \A a \in Range(dtorLog) : Once(dtorLog, a)

\* the teardown has run on an object holding all three resources
C1_Witness ==
    /\ dtorCalls = 1
    /\ dtorEntry = [ctx |-> "ctx", sock |-> SockFd, ssl |-> "ssl"]
    /\ Len(dtorLog) = 4

\* C2: a PushMessage or FeedBack call made while the channel is not
\* connected (handshake not completed, or torn down) fails with an error
\* and does not reach the TLS write / read.
C2_Original ==
    (last.op \in {"PushMessage", "FeedBack"} /\ last.done /\ ~last.conn)
        => (last.threw /\ ~last.tls)

\* C3: over the life of the channel each resource is released at most once,
\* however often the teardown is invoked.
C3_Original == \A r \in DOMAIN relCount : relCount[r] <= 1

\* C4: on a connected channel, a PushMessage whose SSL_write returned zero
\* or less fails with an error, and FeedBack appends no record for an
\* SSL_read that returned zero or less.
C4_Original ==
    /\ (last.op = "PushMessage" /\ last.done /\ last.conn /\ last.tlsRet <= 0)
           => last.threw
    /\ \A i \in DOMAIN fbSrc : fbSrc[i].ret > 0

\* C5: when FeedBack returns normally (every read it made succeeded), fewer
\* bytes than one frame (38) remain pending.
C5_Original ==
    (pc = "ret" /\ last.op = "FeedBack" /\ last.conn /\ ~last.threw
        /\ fbSilent = 0)
        => Len(inbuf) < FbBufSize

\* C6: decoding a frame with time T, token length L and L token bytes gives
\* a record with time T, length L and the token as 2*L lowercase hex digits.
C6_Original ==
    (pc = "codec_done" /\ cin.kind = "frame")
        => /\ cout.tm = cin.tm
           /\ cout.len = Len(cin.tok)
           /\ cout.token = HexRef(cin.tok)

IsHexString(str) == \A i \in DOMAIN str : HexVal(str[i]) >= 0

WellFormedToken(str) == Len(str) = 2 * TokenSize /\ IsHexString(str)

\* reference decoding of an even-length hex string
BytesRef(str) ==
    [i \in 1..(Len(str) \div 2) |->
        16 * HexVal(str[2 * i - 1]) + HexVal(str[2 * i])]

\* C7: for a well-formed token (and no stray byte read behind it or behind
\* the two-character scratch buffer), the buffer handed to the channel is: the
\* byte 1, the identifier big-endian, the expiry (identifier + 86400)
\* big-endian, 0x0020, the 32 token bytes, the payload length big-endian,
\* the payload; 45 + payload length bytes in all.
C7_Original ==
    (last.op = "PushMessage" /\ WellFormedToken(last.raw) /\ last.plain) =>
        LET w == last.wire
            n == Len(w) - 45
        IN  /\ n >= 0
            /\ w[1] = 1
            /\ SubSeq(w, 2, 5) = last.now
            /\ SubSeq(w, 6, 9) = Add32(last.now, DaySeconds)
            /\ SubSeq(w, 10, 11) = <<0, TokenSize>>
            /\ SubSeq(w, 12, 43) = BytesRef(last.raw)
            /\ SubSeq(w, 44, 45) = <<n \div 256, n % 256>>

\* C8: PushMessage with a token string of odd length, with a non-hex
\* character, or not decoding to 32 bytes fails and writes nothing.
C8_Original ==
    (last.op = "PushMessage" /\ ~WellFormedToken(last.raw))
        => (last.threw /\ ~last.tls)

\* C9: Str2Hex(Hex2Str(bytes)) = bytes for every 32-byte token, Hex2Str
\* giving two hex digits per byte.
C9_Original ==
    (pc = "codec_done" /\ cin.kind = "bytes")
        => /\ cout.bytes = cin.tok
           /\ Len(cout.hex) = 2 * Len(cin.tok)

\* C10: when the constructor has failed with an exception, none of the
\* context, the socket and the session is still held.
C10_Original == pc = "failed" => \A r \in DOMAIN res : res[r] # "live"

====
